---- MODULE Spec2Model ----
(***************************************************************************)
(* The WebRTC call session of SafeTalk: WebRTCCallManager                  *)
(* (static/js/webrtc.js) wired to VideoCallUI (staticfiles/js/drag-drop.js)*)
(* together with the browser objects they drive: one RTCPeerConnection     *)
(* with its operations chain, the local media tracks and the signaling     *)
(* WebSocket.  JavaScript runs every handler to completion, so one action  *)
(* is one task of the event loop: the synchronous run of a handler up to   *)
(* its next await.                                                         *)
(***************************************************************************)
EXTENDS Naturals, Sequences, FiniteSets, TLC

VARIABLE node     \* node[p]: the page of peer p (manager, UI, browser objects)

vars == <<node>>

\* ------------------------------------------------------------------ bounds
MaxStack == 3     \* nested WebRTCCallManager.endCall frames the JS stack holds
MaxEndCalls == 1  \* invocations of VideoCallUI.endCall() by the user
MaxMsgs == 2      \* signaling messages a remote party injects (Spec)
MaxFlaps == 1     \* recoveries disconnected -> connected of one connection
MaxCands == 1     \* local ICE candidates one connection gathers
MaxShares == 2    \* clicks on the screen-share button (SpecMedia)
MaxRestarts == 1  \* further startCall calls on the same page (SpecReinit)
MaxConnects == 2  \* calls of ChatWebSocket.connect() by the page (SpecChat)
MaxSends == 2     \* calls of ChatWebSocket.send() by the page (SpecChat)
MaxDrops == 2     \* close events that are not clean (SpecChat)
MaxRecords == 2   \* records stored offline (SpecSync)
MaxPages == 3     \* pages of the list the server holds (SpecScroll)
MaxResets == 1    \* calls of InfiniteScroll.reset() (SpecScroll)

Peers == {"A", "B"}
Other(p) == IF p = "A" THEN "B" ELSE "A"

\* ---------------------------------------------------------------- messages
\* JSON.stringify({type: type, [type]: data}): the payload is stored under the
\* property named after the message type.  JSON.parse gives the object back.
SignalingMessage(type, data) == [type |-> type, key |-> type, data |-> data]

\* data.<name> on a received message: the payload if the message holds that
\* property, undefined otherwise.
HasProp(msg, name) == msg.key = name

Sdp(type) == [sdp |-> "sdp", type |-> type]
\* An RTCIceCandidate as JSON: its candidate line and the media it belongs to.
Candidate == [line |-> "candidate:1", sdpMid |-> "0"]
EmptyObject == [empty |-> TRUE]

\* ------------------------------------------------------------ construction
\* new WebRTCCallManager()
NewManager ==
  [ peerConnection |-> "null", localStream |-> "null",
    signalingSocket |-> "null", isInitiator |-> FALSE, callType |-> "voice",
    onCallStateChange |-> "null" ]

\* new VideoCallUI()
NewVideoCallUI ==
  [ uiCallManager |-> "null", currentCallSessionId |-> "null",
    callTimer |-> "null", shown |-> FALSE, permissionsModal |-> FALSE,
    errorsShown |-> 0, incomingModal |-> FALSE ]

\* The browser objects of the page, none created yet, and the control state
\* of the asynchronous functions.
NewPage ==
  [ \* RTCPeerConnection
    pcCreated |-> FALSE, pcClosed |-> FALSE, pcCloseCalls |-> 0,
    signalingState |-> "stable", localDesc |-> "none", remoteDesc |-> "none",
    connectionState |-> "new", ops |-> <<>>, remoteCands |-> 0,
    candsEmitted |-> 0, connectedTransitions |-> 0, flaps |-> 0,
    addIceCalls |-> 0, candsRefused |-> 0, videoSender |-> 0,
    negotiationFailed |-> FALSE,
    \* connections and sockets still open that the manager no longer refers to
    orphanPcs |-> 0, orphanSockets |-> 0,
    \* MediaStreamTracks acquired by the page
    tracks |-> <<>>, videoRequests |-> 0,
    \* startScreenShare / stopScreenShare: where the async function stands,
    \* who called it, the track it acquired; the screen-share button
    share |-> "idle", shareBy |-> "none", shareTrack |-> 0, shares |-> 0,
    stopsDone |-> 0, screenBtnActive |-> FALSE,
    \* what the last startScreenShare returned; stopScreenShare runs that did
    \* not put a camera track on the sender
    startResult |-> "none", stopsFailed |-> 0,
    \* this.remoteStream: null, or the sessions whose tracks it holds
    remoteStream |-> "null", remoteTracks |-> {},
    \* an event handler ran after endCall and threw
    lateThrew |-> FALSE,
    \* WebSocket
    wsCreated |-> FALSE, readyState |-> "none", wsCloseCalls |-> 0,
    sent |-> <<>>, rcvd |-> 0,
    \* setInterval timers running
    intervals |-> 0,
    \* VideoCallUI.startCall / initializeCall: where the async function stands
    init |-> "idle", failedAt |-> "none", argCallType |-> "voice",
    argIsInitiator |-> FALSE, restarts |-> 0,
    \* a direct call of createAnswer(): none, pending, failed, sent
    apiAnswer |-> "none",
    \* acceptIncomingCall / declineCall: where the async function stands, the
    \* call type it was given; the call type the incoming call announced
    accept |-> "none", acceptCallType |-> "none", decline |-> "none",
    announced |-> "none",
    \* history
    notified |-> <<>>, endCalls |-> 0, hangups |-> 0, endCallDuringInit |-> FALSE,
    endCallThrew |-> FALSE, uncaught |-> FALSE, exc |-> "none",
    initRejected |-> FALSE ]

\* new ChatWebSocket(sessionId, userId), with the sockets it created, the
\* reconnect timers that are armed and the messages put on the wire.
NewChatWebSocket ==
  [ chat |-> [ socket |-> 0, reconnectAttempts |-> 0, isConnected |-> FALSE,
               messageQueue |-> <<>>, sockets |-> <<>>, timers |-> 0,
               disconnected |-> FALSE, connects |-> 0, sends |-> 0,
               drops |-> 0, wire |-> <<>>, hung |-> FALSE ] ]

\* new OfflineManager(), with the records of its object stores, the position
\* of the syncData() run and the write requests of markSynced().
NewOfflineManager ==
  [ offline |-> [ db |-> "null", isOnline |-> TRUE, syncInProgress |-> FALSE,
                  initDone |-> FALSE, records |-> <<>>, marking |-> {},
                  running |-> 0, pc |-> "idle", store |-> 1, batch |-> {},
                  skipped |-> FALSE, lastRun |-> "none" ] ]

\* new InfiniteScroll(options) on a list whose first page is in the
\* document, with the requests in flight and the pages appended.
NewInfiniteScroll ==
  [ scroll |-> [ page |-> 1, hasNextPage |-> TRUE, isLoading |-> FALSE,
                 params |-> 0, fetches |-> <<>>, items |-> <<>>, resets |-> 0 ] ]

NewNode ==
  NewManager @@ NewVideoCallUI @@ NewPage @@ NewChatWebSocket @@ NewOfflineManager
    @@ NewInfiniteScroll

\* A captured track, live and enabled.
NewTrack(kind, source) ==
  [kind |-> kind, source |-> source, stream |-> "local", stopped |-> FALSE,
   stopCalls |-> 0, enabled |-> TRUE, onended |-> FALSE]

\* ------------------------------------------------------- WebRTCCallManager
\* The socket transmits only while the manager still refers to it and it is
\* OPEN; otherwise the message is dropped without a trace.
sendSignalingMessage(s, type, data) ==
  IF s.signalingSocket # "null" /\ s.readyState = "OPEN"
  THEN [s EXCEPT !.sent = Append(@, SignalingMessage(type, data))]
  ELSE s

\* ------------------------------------------------------------- VideoCallUI
startTimer(s) ==
  [s EXCEPT !.callTimer = "interval", !.intervals = @ + 1]

stopTimer(s) ==
  IF s.callTimer # "null"
  THEN [s EXCEPT !.callTimer = "null", !.intervals = @ - 1]
  ELSE s

hideCallInterface(s) == stopTimer([s EXCEPT !.shown = FALSE])

showCallInterface(s) == [s EXCEPT !.shown = TRUE]

showError(s) == [s EXCEPT !.errorsShown = @ + 1]

\* showIncomingCall(callData): of callData it keeps the session id only.
showIncomingCall(s, call_type) ==
  [s EXCEPT !.currentCallSessionId = "sess", !.incomingModal = TRUE,
            !.announced = call_type]

hideIncomingCall(s) ==
  [s EXCEPT !.incomingModal = FALSE, !.currentCallSessionId = "null"]

getCurrentCallData(s) ==
  [call_session_id |-> s.currentCallSessionId, call_type |-> "voice"]

\* startCall has returned to acceptIncomingCall, which hides the incoming
\* call; any other caller does nothing more.
StartCallReturned(s) ==
  IF s.accept = "ok" THEN [hideIncomingCall(s) EXCEPT !.accept = "done"] ELSE s

\* track.stop() on every track of this.localStream
StopLocalTracks(tracks) ==
  [i \in DOMAIN tracks |->
     IF tracks[i].stream = "local"
     THEN [tracks[i] EXCEPT !.stopped = TRUE, !.stopCalls = @ + 1]
     ELSE tracks[i]]

\* peerConnection.close(): the connection is closed and fires no event; the
\* operations still on its chain are abandoned, their promises never settle.
ClosePeerConnection(s) ==
  [s EXCEPT !.pcClosed = TRUE, !.pcCloseCalls = @ + 1,
            !.connectionState = "closed", !.signalingState = "closed",
            !.ops = <<>>]

\* signalingSocket.close()
CloseSocket(s) ==
  [s EXCEPT !.wsCloseCalls = @ + 1,
            !.readyState = IF @ \in {"CONNECTING", "OPEN"} THEN "CLOSING" ELSE @]

\* The call chain endCall -> updateCallState -> VideoCallUI.onCallStateChange
\* -> VideoCallUI.endCall -> endCall is synchronous; depth counts the
\* manager's endCall frames on the stack.  A frame beyond MaxStack does not
\* fit: the engine throws RangeError, which unwinds every frame below.
RECURSIVE endCall(_, _)
RECURSIVE updateCallState(_, _, _)
RECURSIVE onCallStateChange(_, _, _)
RECURSIVE VideoCallUI_endCall(_, _)

\* endCall that sends no 'hangup'.
endCall_Silent(s, depth) ==
  IF depth >= MaxStack
  THEN [s EXCEPT !.exc = "RangeError", !.endCallThrew = TRUE]
  ELSE LET s2 == IF s.peerConnection # "null"
                 THEN [ClosePeerConnection(s) EXCEPT !.peerConnection = "null"]
                 ELSE s
           s3 == IF s2.localStream # "null"
                 THEN [s2 EXCEPT !.tracks = StopLocalTracks(@),
                                 !.localStream = "null"]
                 ELSE s2
           s4 == IF s3.signalingSocket # "null"
                 THEN [CloseSocket(s3) EXCEPT !.signalingSocket = "null"]
                 ELSE s3
       IN  updateCallState(s4, "ended", depth)

endCall(s, depth) ==
  IF depth >= MaxStack
  THEN [s EXCEPT !.exc = "RangeError", !.endCallThrew = TRUE]
  ELSE LET s1 == sendSignalingMessage(s, "hangup", EmptyObject)
           s2 == IF s1.peerConnection # "null"
                 THEN [ClosePeerConnection(s1) EXCEPT !.peerConnection = "null"]
                 ELSE s1
           s3 == IF s2.localStream # "null"
                 THEN [s2 EXCEPT !.tracks = StopLocalTracks(@),
                                 !.localStream = "null"]
                 ELSE s2
           s4 == IF s3.signalingSocket # "null"
                 THEN [CloseSocket(s3) EXCEPT !.signalingSocket = "null"]
                 ELSE s3
       IN  updateCallState(s4, "ended", depth)

updateCallState(s, state, depth) ==
  IF s.onCallStateChange # "null"
  THEN onCallStateChange([s EXCEPT !.notified = Append(@, state)], state, depth)
  ELSE s

\* VideoCallUI.onCallStateChange
onCallStateChange(s, state, depth) ==
  CASE state = "connected" -> showCallInterface(startTimer(s))
    [] state = "ended"     -> VideoCallUI_endCall(s, depth + 1)
    [] state = "failed"    -> showError(s)
    [] OTHER               -> s

\* VideoCallUI.endCall
VideoCallUI_endCall(s, depth) ==
  IF s.uiCallManager # "null"
  THEN LET s1 == endCall(s, depth)
       IN  IF s1.exc # "none"
           THEN s1
           ELSE stopTimer([hideCallInterface([s1 EXCEPT !.uiCallManager = "null"])
                             EXCEPT !.currentCallSessionId = "null"])
  ELSE stopTimer([hideCallInterface(s) EXCEPT !.currentCallSessionId = "null"])

\* The catch of initializeCall reports 'failed' and rethrows; the catch of
\* VideoCallUI.startCall shows the error.
FailInitializeCall(s, at) ==
  StartCallReturned(
    showError([updateCallState(s, "failed", 0) EXCEPT !.init = "failed",
                                                       !.failedAt = at,
                                                       !.initRejected = TRUE]))

\* The last statement of initializeCall, then startCall records the session.
FinishInitializeCall(s) ==
  StartCallReturned(
    [updateCallState(s, "connecting", 0) EXCEPT !.init = "done",
                                                !.currentCallSessionId = "sess"])

\* The first track of this.localStream of the kind, 0 if it has none.
FirstLocalTrack(tracks, kind) ==
  LET c == {i \in DOMAIN tracks : tracks[i].stream = "local" /\ tracks[i].kind = kind}
  IN  IF c = {} THEN 0 ELSE CHOOSE i \in c : \A j \in c : i <= j

\* new RTCPeerConnection(iceServers), every local track added as a sender:
\* the connection has a video sender only if the local stream has a video
\* track.
createPeerConnection(s) ==
  [s EXCEPT !.peerConnection = "pc", !.pcCreated = TRUE, !.pcClosed = FALSE,
            !.signalingState = "stable", !.localDesc = "none",
            !.remoteDesc = "none", !.connectionState = "new", !.ops = <<>>,
            !.videoSender = FirstLocalTrack(s.tracks, "video"),
            \* the assignment drops the reference to an earlier connection
            !.orphanPcs = IF s.peerConnection # "null" THEN @ + 1 ELSE @]

\* new WebSocket(wsUrl): the socket starts CONNECTING.
setupSignaling(s) ==
  [s EXCEPT !.signalingSocket = "ws", !.wsCreated = TRUE,
            !.readyState = "CONNECTING",
            \* the assignment drops the reference to an earlier socket
            !.orphanSockets = IF /\ s.signalingSocket # "null"
                                 /\ s.readyState \in {"CONNECTING", "OPEN"}
                              THEN @ + 1 ELSE @]

\* A call of a promise-returning method of this.peerConnection: the operation
\* joins the connection's chain and the caller is suspended on it.
Chain(s, op, arg, owner) ==
  [s EXCEPT !.ops = Append(@, [op |-> op, arg |-> arg, owner |-> owner])]

\* The constraints of getUserMedia: audio always, camera video for 'video'.
CapturedTracks(callType) ==
  IF callType = "video"
  THEN <<NewTrack("audio", "mic"), NewTrack("video", "camera")>>
  ELSE <<NewTrack("audio", "mic")>>

\* this.localStream = <new stream>: the tracks of the stream it referred to
\* before are no longer tracks of this.localStream.
PreviousStream(tracks) ==
  [i \in DOMAIN tracks |->
     IF tracks[i].stream = "local" THEN [tracks[i] EXCEPT !.stream = "previous"]
     ELSE tracks[i]]

\* initializeCall from the resolution of getUserMedia to its next await.
MediaAcquired(s) ==
  LET s1 == [s EXCEPT !.localStream = "stream",
                      !.tracks = PreviousStream(@) \o CapturedTracks(s.callType)]
      s2 == setupSignaling(createPeerConnection(s1))
  IN  IF s2.isInitiator
      THEN [Chain(s2, "createOffer", "offer", "init") EXCEPT !.init = "createOffer"]
      ELSE FinishInitializeCall(s2)

\* ------------------------------------------------- RTCPeerConnection (browser)
\* Whether the connection's signaling state admits the operation (JSEP).  A
\* remote offer on top of a local offer is admitted by rolling the local one
\* back.
OpValid_AnswerAnytime(s, o) ==
  CASE o.op \in {"createOffer", "createAnswer", "replaceTrack"} -> TRUE
    [] o.op = "setLocalDescription" ->
         IF o.arg = "offer"
         THEN s.signalingState \in {"stable", "have-local-offer"}
         ELSE s.signalingState = "have-remote-offer"
    [] o.op = "setRemoteDescription" ->
         IF o.arg = "offer"
         THEN s.signalingState \in {"stable", "have-remote-offer", "have-local-offer"}
         ELSE s.signalingState = "have-local-offer"
    [] o.op = "addIceCandidate" -> s.remoteDesc # "none"
    [] OTHER -> FALSE

OpValid(s, o) ==
  CASE o.op = "createOffer" -> TRUE
    [] o.op = "createAnswer" -> s.signalingState = "have-remote-offer"
    [] o.op = "setLocalDescription" ->
         IF o.arg = "offer"
         THEN s.signalingState \in {"stable", "have-local-offer"}
         ELSE s.signalingState = "have-remote-offer"
    [] o.op = "setRemoteDescription" ->
         IF o.arg = "offer"
         THEN s.signalingState \in {"stable", "have-remote-offer", "have-local-offer"}
         ELSE s.signalingState = "have-local-offer"
    [] o.op = "addIceCandidate" -> s.remoteDesc # "none"
    [] o.op = "replaceTrack" -> TRUE
    [] OTHER -> FALSE

\* The effect of an admitted operation on the connection.
OpApply(s, o) ==
  CASE o.op = "setLocalDescription" ->
         [s EXCEPT !.localDesc = o.arg,
                   !.signalingState = IF o.arg = "offer" THEN "have-local-offer"
                                                         ELSE "stable"]
    [] o.op = "setRemoteDescription" ->
         [s EXCEPT !.remoteDesc = o.arg,
                   !.localDesc = IF o.arg = "offer" /\ s.signalingState = "have-local-offer"
                                 THEN "none" ELSE @,
                   !.signalingState = IF o.arg = "offer" THEN "have-remote-offer"
                                                         ELSE "stable"]
    [] o.op = "addIceCandidate" -> [s EXCEPT !.remoteCands = @ + 1]
    [] o.op = "replaceTrack" -> [s EXCEPT !.videoSender = s.shareTrack]
    [] OTHER -> s

\* Both descriptions are applied and the offer/answer exchange is complete.
Negotiated(s) ==
  /\ s.pcCreated /\ ~s.pcClosed
  /\ s.signalingState = "stable"
  /\ s.localDesc # "none" /\ s.remoteDesc # "none"

\* ------------------------------------------------- media controls
\* toggleAudio / toggleVideo: flip the enabled flag of the local stream's
\* first track of the kind, if there is a stream and it has one.
\* toggleAudio that mutes instead of flipping.
toggleAudio_Mute(s) ==
  LET i == FirstLocalTrack(s.tracks, "audio")
  IN  IF s.localStream # "null" /\ i # 0
      THEN [s EXCEPT !.tracks[i].enabled = FALSE]
      ELSE s

toggleAudio(s) ==
  LET i == FirstLocalTrack(s.tracks, "audio")
  IN  IF s.localStream # "null" /\ i # 0
      THEN [s EXCEPT !.tracks[i].enabled = ~@]
      ELSE s

toggleVideo(s) ==
  LET i == FirstLocalTrack(s.tracks, "video")
  IN  IF s.localStream # "null" /\ i # 0
      THEN [s EXCEPT !.tracks[i].enabled = ~@]
      ELSE s

\* A video track of a stream other than this.localStream.
SharedTrack(source) == [NewTrack("video", source) EXCEPT !.stream = source]

\* startScreenShare returns; toggleScreenShare marks the button on success.
StartScreenShareReturned(s, success) ==
  [s EXCEPT !.share = "idle",
            !.tracks = IF success THEN [@ EXCEPT ![s.shareTrack].onended = TRUE]
                                  ELSE @,
            !.startResult = IF success THEN "true" ELSE "false",
            !.screenBtnActive = @ \/ success]

\* stopScreenShare returns; toggleScreenShare, if it was the caller, clears
\* the button.
StopScreenShareReturned(s, replaced) ==
  [s EXCEPT !.share = "idle",
            !.stopsDone = IF replaced THEN @ + 1 ELSE @,
            !.stopsFailed = IF replaced THEN @ ELSE @ + 1,
            !.screenBtnActive = IF s.shareBy = "ui" THEN FALSE ELSE @]

\* startScreenShare after getDisplayMedia resolved: the screen track replaces
\* the track of the video sender, if the connection has one.
DisplayMediaAcquired(s) ==
  LET s1 == [s EXCEPT !.tracks = Append(@, SharedTrack("screen")),
                      !.shareTrack = Len(s.tracks) + 1]
  IN  IF s1.peerConnection = "null"
      THEN StartScreenShareReturned(s1, FALSE)   \* TypeError, caught
      ELSE IF s1.videoSender # 0
           THEN [Chain(s1, "replaceTrack", "track", "startScreenShare")
                   EXCEPT !.share = "start:replaceTrack"]
           ELSE StartScreenShareReturned(s1, TRUE)

\* stopScreenShare doing nothing.
BeginStopScreenShare_Noop(s, by) == s

\* stopScreenShare, to its await of getUserMedia({video: true})
BeginStopScreenShare(s, by) ==
  [s EXCEPT !.share = "stop:getUserMedia", !.shareBy = by,
            !.videoRequests = @ + 1]

\* stopScreenShare after getUserMedia resolved with a camera stream
CameraAcquired(s) ==
  LET s1 == [s EXCEPT !.tracks = Append(@, SharedTrack("camera")),
                      !.shareTrack = Len(s.tracks) + 1]
  IN  IF s1.peerConnection = "null"
      THEN StopScreenShareReturned(s1, FALSE)    \* TypeError, caught
      ELSE IF s1.videoSender # 0
           THEN [Chain(s1, "replaceTrack", "track", "stopScreenShare")
                   EXCEPT !.share = "stop:replaceTrack"]
           ELSE StopScreenShareReturned(s1, FALSE)

\* ------------------------------------------- continuations after an await
\* What the suspended function does when the awaited operation o is fulfilled.
Resume(s, o) ==
  CASE o.owner = "init" /\ o.op = "createOffer" ->
         \* createOffer: await this.peerConnection.setLocalDescription(offer)
         IF s.peerConnection = "null"
         THEN FailInitializeCall(s, "createOffer")
         ELSE [Chain(s, "setLocalDescription", "offer", "init")
                 EXCEPT !.init = "setLocalDescription"]
    [] o.owner = "init" /\ o.op = "setLocalDescription" ->
         \* createOffer sends the offer, initializeCall reports 'connecting'
         FinishInitializeCall(sendSignalingMessage(s, "offer", Sdp("offer")))
    [] o.owner = "handleOffer" /\ o.op = "setRemoteDescription" ->
         \* handleOffer: await this.createAnswer()
         IF s.peerConnection = "null" THEN s
         ELSE Chain(s, "createAnswer", "answer", "handleOffer")
    [] o.owner = "handleOffer" /\ o.op = "createAnswer" ->
         IF s.peerConnection = "null" THEN s
         ELSE Chain(s, "setLocalDescription", "answer", "handleOffer")
    [] o.owner = "handleOffer" /\ o.op = "setLocalDescription" ->
         sendSignalingMessage(s, "answer", Sdp("answer"))
    [] o.owner = "createAnswer" /\ o.op = "createAnswer" ->
         \* createAnswer: await this.peerConnection.setLocalDescription(answer)
         IF s.peerConnection = "null" THEN [s EXCEPT !.apiAnswer = "failed"]
         ELSE Chain(s, "setLocalDescription", "answer", "createAnswer")
    [] o.owner = "createAnswer" /\ o.op = "setLocalDescription" ->
         [sendSignalingMessage(s, "answer", Sdp("answer"))
            EXCEPT !.apiAnswer = "sent"]
    [] o.owner = "startScreenShare" -> StartScreenShareReturned(s, TRUE)
    [] o.owner = "stopScreenShare" -> StopScreenShareReturned(s, TRUE)
    [] OTHER -> s

\* Rejected with every rejection failing the call.
Rejected_FailsCall(s, o) == FailInitializeCall(s, "setLocalDescription")

\* What it does when the awaited operation is rejected: initializeCall fails
\* the call, the signaling handlers only log.
Rejected(s, o) ==
  CASE o.owner = "init" ->
         FailInitializeCall(s, IF o.op = "createOffer" THEN "createOffer"
                                                       ELSE "setLocalDescription")
    [] o.op = "addIceCandidate" ->
         \* handleIceCandidate logs the error; the candidate is not kept
         [s EXCEPT !.candsRefused = IF s.remoteDesc = "none" THEN @ + 1 ELSE @]
    [] o.owner \in {"handleOffer", "handleAnswer"} ->
         \* handleOffer / handleAnswer log the error
         [s EXCEPT !.negotiationFailed = TRUE]
    [] o.owner = "createAnswer" ->
         \* createAnswer logs and rethrows to its caller
         [s EXCEPT !.apiAnswer = "failed"]
    [] o.owner = "startScreenShare" -> StartScreenShareReturned(s, FALSE)
    [] o.owner = "stopScreenShare" -> StopScreenShareReturned(s, FALSE)
    [] OTHER -> s

\* ---------------------------------------------------- signaling handlers
Undefined == [undefined |-> TRUE]

\* The payload handleSignalingMessage hands to the handler of the message's
\* type: data.offer, data.answer, data.candidate.
PayloadRead(data) ==
  LET name == CASE data.type = "offer" -> "offer"
                [] data.type = "answer" -> "answer"
                [] data.type = "ice_candidate" -> "candidate"
                [] OTHER -> "none"
  IN  IF HasProp(data, name) THEN data.data ELSE Undefined

\* handleSignalingMessage taking every message for a hangup.
handleSignalingMessage_AlwaysHangup(s, data) ==
  [endCall([s EXCEPT !.hangups = @ + 1], 0) EXCEPT !.exc = "none"]

\* handleSignalingMessage up to the first await of the handler it selects.
\* A thrown error is caught by the handler and logged.
handleSignalingMessage(s, data) ==
  CASE data.type = "offer" ->
         IF ~HasProp(data, "offer") \/ s.peerConnection = "null" THEN s
         ELSE Chain(s, "setRemoteDescription", data.data.type, "handleOffer")
    [] data.type = "answer" ->
         IF ~HasProp(data, "answer") \/ s.peerConnection = "null" THEN s
         ELSE Chain(s, "setRemoteDescription", data.data.type, "handleAnswer")
    [] data.type = "ice_candidate" ->
         \* handleIceCandidate(data.candidate)
         IF ~HasProp(data, "candidate") \/ s.peerConnection = "null" THEN s
         ELSE Chain([s EXCEPT !.addIceCalls = @ + 1],
                    "addIceCandidate", "cand", "handleIceCandidate")
    [] data.type = "hangup" ->
         \* handleHangup; a RangeError is caught by handleSignalingMessage
         [endCall([s EXCEPT !.hangups = @ + 1,
                            !.endCallDuringInit = @ \/ s.init \in
                      {"getUserMedia", "createOffer", "setLocalDescription"}], 0)
            EXCEPT !.exc = "none"]
    [] OTHER -> s

\* onconnectionstatechange with 'connecting' falling into the 'connected' case.
onconnectionstatechange_ConnectingCase(s) ==
  IF s.peerConnection = "null"
  THEN [s EXCEPT !.exc = "TypeError"]
  ELSE CASE s.connectionState \in {"connecting", "connected"} ->
              updateCallState(s, "connected", 0)
         [] s.connectionState \in {"disconnected", "failed"} ->
              updateCallState(s, "disconnected", 0)
         [] s.connectionState = "closed" -> updateCallState(s, "ended", 0)
         [] OTHER -> s

\* peerConnection.onconnectionstatechange
onconnectionstatechange(s) ==
  IF s.peerConnection = "null"
  THEN [s EXCEPT !.exc = "TypeError"]     \* this.peerConnection is null
  ELSE CASE s.connectionState = "connected" -> updateCallState(s, "connected", 0)
         [] s.connectionState \in {"disconnected", "failed"} ->
              updateCallState(s, "disconnected", 0)
         [] s.connectionState = "closed" -> updateCallState(s, "ended", 0)
         [] OTHER -> s

\* peerConnection.ontrack: the track joins this.remoteStream, created if the
\* manager has none, and the stream is handed to onRemoteStream.
ontrack(s) ==
  [s EXCEPT !.remoteStream = "stream",
            !.remoteTracks = @ \cup {s.restarts}]

\* peerConnection.onicecandidate with a candidate
onicecandidate(s) ==
  sendSignalingMessage(s, "ice_candidate", [candidate |-> Candidate])

\* An error that leaves an event handler with no catch around it is reported
\* by the browser as uncaught.
Unhandled(s) ==
  [s EXCEPT !.uncaught = @ \/ s.exc # "none", !.exc = "none"]

\* initializeCall is suspended at an await.
Suspended(s) == s.init \in {"getUserMedia", "createOffer", "setLocalDescription"}

\* initializeCall creating the connection before it asks for the media.
BeginInitializeCall_ConnectionFirst(s) ==
  createPeerConnection(
    [s EXCEPT !.uiCallManager = "mgr", !.onCallStateChange = "ui",
              !.callType = s.argCallType, !.isInitiator = s.argIsInitiator,
              !.videoRequests = IF s.argCallType = "video" THEN @ + 1 ELSE @,
              !.init = "getUserMedia"])

\* VideoCallUI.startCall after the permission check, into initializeCall and
\* up to its await of getUserMedia.
BeginInitializeCall(s) ==
  [s EXCEPT !.uiCallManager = "mgr", !.onCallStateChange = "ui",
            !.callType = s.argCallType, !.isInitiator = s.argIsInitiator,
            !.videoRequests = IF s.argCallType = "video" THEN @ + 1 ELSE @,
            !.init = "getUserMedia"]

\* The states the browser may move a connection to.
ConnectionNext(s) ==
  CASE s.connectionState = "new" ->
         IF Negotiated(s) THEN {"connecting"} ELSE {}
    [] s.connectionState = "connecting" -> {"connected", "failed"}
    [] s.connectionState = "connected" -> {"disconnected"}
    [] s.connectionState = "disconnected" ->
         IF s.flaps < MaxFlaps THEN {"connected", "failed"} ELSE {"failed"}
    [] OTHER -> {}

\* ----------------------------------------------------------------- actions
Step(p, s) == node' = [node EXCEPT ![p] = s]

\* VideoCallUI.startCall(sessionId, callType, isInitiator), to its first await
StartCall(p, callType, isInitiator) ==
  /\ node[p].init = "idle"
  /\ Step(p, [node[p] EXCEPT !.init = "checkPermissions",
                             !.argCallType = callType,
                             !.argIsInitiator = isInitiator])

\* checkPermissions() settles
PermissionsChecked(p, hasPermissions) ==
  /\ node[p].init = "checkPermissions"
  /\ Step(p, IF hasPermissions
             THEN BeginInitializeCall(node[p])
             ELSE StartCallReturned([node[p] EXCEPT !.permissionsModal = TRUE,
                                                    !.init = "noPermission"]))

\* navigator.mediaDevices.getUserMedia settles
GetUserMediaSettled(p, granted) ==
  /\ node[p].init = "getUserMedia"
  /\ Step(p, IF granted THEN MediaAcquired(node[p])
                        ELSE FailInitializeCall(node[p], "getUserMedia"))

\* The connection settles the operation at the head of its chain.
PcSettle(p, fulfil) ==
  LET s == node[p]
      o == Head(s.ops)
      s1 == [s EXCEPT !.ops = Tail(@)]
  IN  /\ s.pcCreated /\ ~s.pcClosed /\ s.ops # <<>>
      /\ fulfil => OpValid(s, o)
      /\ Step(p, IF fulfil THEN Resume(OpApply(s1, o), o) ELSE Rejected(s1, o))

\* The WebSocket handshake completes: onopen
WsOpen(p) ==
  /\ node[p].readyState = "CONNECTING"
  /\ Step(p, [node[p] EXCEPT !.readyState = "OPEN"])

\* The socket is closed (handshake failure, server or network, or the end of
\* a close() handshake): onerror / onclose only log.
WsClosed(p) ==
  /\ node[p].readyState \in {"CONNECTING", "OPEN", "CLOSING"}
  /\ Step(p, [node[p] EXCEPT !.readyState = "CLOSED"])

\* signalingSocket.onmessage: a message reaches an OPEN socket
Receive(p, msg) ==
  /\ node[p].readyState = "OPEN"
  /\ Step(p, handleSignalingMessage([node[p] EXCEPT !.rcvd = @ + 1], msg))

\* The browser changes the connection's state and fires connectionstatechange.
ConnectionStateChange(p, new) ==
  LET s == node[p] IN
  /\ s.pcCreated /\ ~s.pcClosed
  /\ new \in ConnectionNext(s)
  /\ Step(p, Unhandled(onconnectionstatechange(
        [s EXCEPT !.connectionState = new,
                  !.flaps = IF s.connectionState = "disconnected" /\ new = "connected"
                            THEN @ + 1 ELSE @,
                  !.connectedTransitions = IF new = "connected" THEN @ + 1 ELSE @])))

\* The browser gathers a local ICE candidate: onicecandidate
LocalIceCandidate(p) ==
  LET s == node[p] IN
  /\ s.pcCreated /\ ~s.pcClosed /\ s.localDesc # "none"
  /\ s.candsEmitted < MaxCands
  /\ Step(p, onicecandidate([s EXCEPT !.candsEmitted = @ + 1]))

\* The user hangs up: VideoCallUI.endCall().  Before startCall has created the
\* manager the call only hides what is already hidden, so it is left out.
UserEndCall(p) ==
  LET s == node[p] IN
  /\ s.endCalls < MaxEndCalls
  /\ s.uiCallManager # "null"
  /\ Step(p, Unhandled(VideoCallUI_endCall(
        [s EXCEPT !.endCalls = @ + 1,
                  !.endCallDuringInit = @ \/ (Suspended(s) /\ s.uiCallManager # "null")],
        0)))

\* A further startCall on the page once an earlier one has returned:
\* createCallManager() hands out the same manager.
StartCallAgain(p, callType, isInitiator) ==
  LET s == node[p] IN
  /\ s.init \in {"done", "failed"} /\ s.restarts < MaxRestarts
  /\ s.ops = <<>> /\ s.share = "idle"
  /\ Step(p, [s EXCEPT !.init = "checkPermissions", !.restarts = @ + 1,
                       !.argCallType = callType,
                       !.argIsInitiator = isInitiator])

\* createAnswer() called on the manager directly, to its first await.  With
\* no connection the call throws at once (TypeError, logged and rethrown).
CallCreateAnswer(p) ==
  LET s == node[p] IN
  /\ s.apiAnswer = "none"
  /\ s.init \in {"done", "failed", "createOffer", "setLocalDescription", "getUserMedia"}
  /\ Step(p, IF s.peerConnection = "null"
             THEN [s EXCEPT !.apiAnswer = "failed"]
             ELSE [Chain(s, "createAnswer", "answer", "createAnswer")
                     EXCEPT !.apiAnswer = "pending"])

\* The page is told of an incoming call: showIncomingCall(event.detail)
ShowIncomingCall(p, call_type) ==
  /\ node[p].init = "idle" /\ node[p].announced = "none"
  /\ Step(p, showIncomingCall(node[p], call_type))

\* The accept button: acceptCall, into acceptIncomingCall up to its fetch
AcceptCall(p) ==
  LET s == node[p] IN
  /\ s.incomingModal /\ s.accept = "none"
  /\ s.currentCallSessionId # "null"
  /\ Step(p, [s EXCEPT !.accept = "pending",
                       !.acceptCallType = getCurrentCallData(s).call_type])

\* The accept request settles: on success acceptIncomingCall calls
\* startCall(callSessionId, callType, false), otherwise it shows the error.
AcceptSettled(p, ok) ==
  LET s == node[p] IN
  /\ s.accept = "pending" /\ s.init = "idle"
  /\ Step(p, IF ok
             THEN [s EXCEPT !.accept = "ok", !.init = "checkPermissions",
                            !.argCallType = s.acceptCallType,
                            !.argIsInitiator = FALSE]
             ELSE showError([s EXCEPT !.accept = "failed"]))

\* The decline button: declineCall up to its fetch
DeclineCall(p) ==
  LET s == node[p] IN
  /\ s.incomingModal /\ s.decline = "none"
  /\ Step(p, IF s.currentCallSessionId # "null"
             THEN [s EXCEPT !.decline = "pending"]
             ELSE [hideIncomingCall(s) EXCEPT !.decline = "done"])

\* The decline request settles, either way: hideIncomingCall
DeclineSettled(p) ==
  /\ node[p].decline = "pending"
  /\ Step(p, [hideIncomingCall(node[p]) EXCEPT !.decline = "done"])

\* Both ends of the pair have started, negotiated and have their socket open.
Established ==
  \A q \in Peers :
    /\ node[q].init = "done" /\ node[q].readyState = "OPEN"
    /\ Negotiated(node[q])

\* One user of an established call hangs up.
Hangup(p) == Established /\ UserEndCall(p)

\* The connection hands over a track of the remote party's media, one per
\* session: ontrack
RemoteTrack(p) ==
  LET s == node[p] IN
  /\ s.pcCreated /\ ~s.pcClosed /\ s.remoteDesc # "none"
  /\ s.restarts \notin s.remoteTracks
  /\ Step(p, ontrack(s))

\* A message that reaches onmessage after endCall() has closed the socket.
LateReceive(p, msg) ==
  LET s == node[p] IN
  /\ s.wsCreated /\ s.signalingSocket = "null" /\ s.readyState = "CLOSING"
  /\ s.rcvd < MaxMsgs
  /\ Step(p, handleSignalingMessage([s EXCEPT !.rcvd = @ + 1], msg))

\* A connectionstatechange event dispatched after endCall() has closed the
\* connection: the 'closed' the handler has a case for.
LateConnectionStateChange(p) ==
  LET s == node[p]
      s1 == onconnectionstatechange(s)
  IN  /\ s.pcCreated /\ s.pcClosed /\ s.peerConnection = "null"
      /\ ~s.lateThrew
      /\ Step(p, Unhandled([s1 EXCEPT !.lateThrew = s1.exc # "none"]))

\* VideoCallUI.toggleMic / toggleVideo
ToggleMic(p) ==
  /\ node[p].uiCallManager # "null"
  /\ Step(p, toggleAudio(node[p]))

ToggleVideo(p) ==
  /\ node[p].uiCallManager # "null"
  /\ Step(p, toggleVideo(node[p]))

\* VideoCallUI.toggleScreenShare: stops the sharing if the button is marked
\* active, starts it otherwise; up to the first await of the manager.
ToggleScreenShare(p) ==
  LET s == node[p] IN
  /\ s.uiCallManager # "null" /\ s.share = "idle" /\ s.shares < MaxShares
  /\ Step(p, IF s.screenBtnActive
             THEN BeginStopScreenShare([s EXCEPT !.shares = @ + 1], "ui")
             ELSE [s EXCEPT !.shares = @ + 1, !.shareBy = "ui",
                            !.share = "start:getDisplayMedia"])

\* navigator.mediaDevices.getDisplayMedia settles
DisplayMediaSettled(p, granted) ==
  /\ node[p].share = "start:getDisplayMedia"
  /\ Step(p, IF granted THEN DisplayMediaAcquired(node[p])
                        ELSE StartScreenShareReturned(node[p], FALSE))

\* getUserMedia({video: true}) of stopScreenShare settles
CameraSettled(p, granted) ==
  /\ node[p].share = "stop:getUserMedia"
  /\ Step(p, IF granted THEN CameraAcquired(node[p])
                        ELSE StopScreenShareReturned(node[p], FALSE))

\* The user stops the sharing in the browser's own bar: the screen track
\* ends and, if startScreenShare registered it, onended calls
\* stopScreenShare.
ScreenTrackEnded(p) ==
  LET s == node[p] IN
  /\ s.share = "idle"
  /\ \E i \in DOMAIN s.tracks :
       /\ s.tracks[i].source = "screen" /\ ~s.tracks[i].stopped
       /\ LET s1 == [s EXCEPT !.tracks[i].stopped = TRUE]
          IN  Step(p, IF s.tracks[i].onended
                      THEN BeginStopScreenShare(s1, "onended")
                      ELSE s1)

\* ------------------------------------------------------------ specification
\* One page against an arbitrary remote party: what the remote party sends is
\* any message of the protocol, in this code's format or in the format its
\* receiver reads, or one of an unknown type.
RemoteMsgs ==
  { SignalingMessage("offer", Sdp("offer")),
    SignalingMessage("answer", Sdp("answer")),
    SignalingMessage("ice_candidate", [candidate |-> Candidate]),
    [type |-> "ice_candidate", key |-> "candidate", data |-> Candidate],
    SignalingMessage("hangup", EmptyObject),
    SignalingMessage("ping", EmptyObject) }

Init == node = [p \in Peers |-> NewNode]

Next ==
  \E p \in {"A"} :
    \/ \E ct \in {"voice", "video"}, ini \in BOOLEAN : StartCall(p, ct, ini)
    \/ \E has \in BOOLEAN : PermissionsChecked(p, has)
    \/ \E granted \in BOOLEAN : GetUserMediaSettled(p, granted)
    \/ \E fulfil \in BOOLEAN : PcSettle(p, fulfil)
    \/ WsOpen(p)
    \/ WsClosed(p)
    \/ \E msg \in RemoteMsgs : node[p].rcvd < MaxMsgs /\ Receive(p, msg)
    \/ \E new \in {"connecting", "connected", "disconnected", "failed"} :
         ConnectionStateChange(p, new)
    \/ LocalIceCandidate(p)
    \/ UserEndCall(p)

Spec == Init /\ [][Next]_vars

\* Two pages on one session: A calls, B answers.  The transport hands every
\* message one page sent to the other page, in order, once that page's socket
\* is open; the browsers grant the permissions and the media and accept every
\* operation the signaling state admits.
Deliver(p) ==
  /\ node[p].rcvd < Len(node[Other(p)].sent)
  /\ Receive(p, node[Other(p)].sent[node[p].rcvd + 1])

\* ICE has a candidate pair to check only if one of the two connections was
\* given a candidate of the other.
HasCandidatePair == \E q \in Peers : node[q].remoteCands > 0

\* The connection of a pair is established once both ends have negotiated.
PairConnection(p) ==
  \E new \in {"connecting", "connected"} :
    /\ new = "connected" =>
          /\ \A q \in Peers : Negotiated(node[q])
          /\ HasCandidatePair
    /\ ConnectionStateChange(p, new)

NextPair ==
  \E p \in Peers :
    \/ \E ct \in {"voice", "video"} : StartCall(p, ct, p = "A")
    \/ PermissionsChecked(p, TRUE)
    \/ GetUserMediaSettled(p, TRUE)
    \/ node[p].ops # <<>> /\ PcSettle(p, OpValid(node[p], Head(node[p].ops)))
    \/ WsOpen(p)
    \/ Deliver(p)
    \/ PairConnection(p)
    \/ LocalIceCandidate(p)

SpecPair == Init /\ [][NextPair]_vars

\* One page in a call whose user works the media controls and hangs up; the
\* browser grants or refuses each capture.
NextMedia ==
  \E p \in {"A"} :
    \/ \E ct \in {"voice", "video"} : StartCall(p, ct, TRUE)
    \/ PermissionsChecked(p, TRUE)
    \/ GetUserMediaSettled(p, TRUE)
    \/ \E fulfil \in BOOLEAN : PcSettle(p, fulfil)
    \/ WsOpen(p)
    \/ ToggleMic(p)
    \/ ToggleVideo(p)
    \/ ToggleScreenShare(p)
    \/ \E granted \in BOOLEAN : DisplayMediaSettled(p, granted)
    \/ \E granted \in BOOLEAN : CameraSettled(p, granted)
    \/ ScreenTrackEnded(p)
    \/ UserEndCall(p)

SpecMedia == Init /\ [][NextMedia]_vars

\* One page whose user starts a call again after an earlier startCall has
\* returned, with or without hanging up in between.
NextReinit ==
  \E p \in {"A"} :
    \/ \E ct \in {"voice", "video"}, ini \in BOOLEAN : StartCall(p, ct, ini)
    \/ \E ct \in {"voice", "video"}, ini \in BOOLEAN : StartCallAgain(p, ct, ini)
    \/ PermissionsChecked(p, TRUE)
    \/ \E granted \in BOOLEAN : GetUserMediaSettled(p, granted)
    \/ \E fulfil \in BOOLEAN : PcSettle(p, fulfil)
    \/ WsOpen(p)
    \/ WsClosed(p)
    \/ UserEndCall(p)

SpecReinit == Init /\ [][NextReinit]_vars

\* One page in a call, a remote party that sends offers and answers, and a
\* caller of the manager's createAnswer().
NextAnswer ==
  \E p \in {"A"} :
    \/ \E ct \in {"voice", "video"}, ini \in BOOLEAN : StartCall(p, ct, ini)
    \/ PermissionsChecked(p, TRUE)
    \/ GetUserMediaSettled(p, TRUE)
    \/ \E fulfil \in BOOLEAN : PcSettle(p, fulfil)
    \/ WsOpen(p)
    \/ \E msg \in {SignalingMessage("offer", Sdp("offer")),
                    SignalingMessage("answer", Sdp("answer"))} :
         node[p].rcvd < MaxMsgs /\ Receive(p, msg)
    \/ CallCreateAnswer(p)
    \/ UserEndCall(p)

SpecAnswer == Init /\ [][NextAnswer]_vars

\* The pair of SpecPair, one of whose users hangs up once the call is
\* established.
NextHangup ==
  \E p \in Peers :
    \/ \E ct \in {"voice", "video"} : StartCall(p, ct, p = "A")
    \/ PermissionsChecked(p, TRUE)
    \/ GetUserMediaSettled(p, TRUE)
    \/ node[p].ops # <<>> /\ PcSettle(p, OpValid(node[p], Head(node[p].ops)))
    \/ WsOpen(p)
    \/ Deliver(p)
    \/ PairConnection(p)
    \/ LocalIceCandidate(p)
    \/ Hangup(p)

SpecHangup == Init /\ [][NextHangup]_vars

\* One page against a remote party that sends messages of types the manager
\* does not know, whatever properties they carry.
UnknownMsgs ==
  { SignalingMessage("ping", EmptyObject),
    SignalingMessage("ringing", EmptyObject),
    [type |-> "renegotiate", key |-> "offer", data |-> Sdp("offer")] }

NextUnknown ==
  \E p \in {"A"} :
    \/ \E ct \in {"voice", "video"}, ini \in BOOLEAN : StartCall(p, ct, ini)
    \/ PermissionsChecked(p, TRUE)
    \/ GetUserMediaSettled(p, TRUE)
    \/ \E fulfil \in BOOLEAN : PcSettle(p, fulfil)
    \/ WsOpen(p)
    \/ \E msg \in UnknownMsgs : node[p].rcvd < MaxMsgs /\ Receive(p, msg)
    \/ LocalIceCandidate(p)
    \/ UserEndCall(p)

SpecUnknown == Init /\ [][NextUnknown]_vars

\* One page that is told of an incoming call, whose user accepts or declines;
\* the caller sends its offer and may hang up.
NextIncoming ==
  \E p \in {"A"} :
    \/ \E ct \in {"voice", "video"} : ShowIncomingCall(p, ct)
    \/ AcceptCall(p)
    \/ \E ok \in BOOLEAN : AcceptSettled(p, ok)
    \/ DeclineCall(p)
    \/ DeclineSettled(p)
    \/ \E has \in BOOLEAN : PermissionsChecked(p, has)
    \/ \E granted \in BOOLEAN : GetUserMediaSettled(p, granted)
    \/ \E fulfil \in BOOLEAN : PcSettle(p, fulfil)
    \/ WsOpen(p)
    \/ \E msg \in {SignalingMessage("offer", Sdp("offer")),
                    SignalingMessage("hangup", EmptyObject)} :
         node[p].rcvd < MaxMsgs /\ Receive(p, msg)
    \/ UserEndCall(p)

SpecIncoming == Init /\ [][NextIncoming]_vars

\* One page that takes a call, receives the remote media, hangs up and takes
\* another call on the same manager.
NextSessions ==
  \E p \in {"A"} :
    \/ \E ct \in {"voice", "video"} : StartCall(p, ct, FALSE)
    \/ \E ct \in {"voice", "video"} : StartCallAgain(p, ct, FALSE)
    \/ PermissionsChecked(p, TRUE)
    \/ GetUserMediaSettled(p, TRUE)
    \/ \E fulfil \in BOOLEAN : PcSettle(p, fulfil)
    \/ WsOpen(p)
    \/ node[p].rcvd < MaxMsgs /\ Receive(p, SignalingMessage("offer", Sdp("offer")))
    \/ RemoteTrack(p)
    \/ UserEndCall(p)

SpecSessions == Init /\ [][NextSessions]_vars

\* One page whose call is ended by its user or by the remote party's hangup,
\* and a browser that still delivers messages and a connection-state event
\* afterwards.
NextLate ==
  \E p \in {"A"} :
    \/ \E ct \in {"voice", "video"}, ini \in BOOLEAN : StartCall(p, ct, ini)
    \/ PermissionsChecked(p, TRUE)
    \/ GetUserMediaSettled(p, TRUE)
    \/ \E fulfil \in BOOLEAN : PcSettle(p, fulfil)
    \/ WsOpen(p)
    \/ \E msg \in {SignalingMessage("offer", Sdp("offer")),
                    SignalingMessage("hangup", EmptyObject)} :
         node[p].rcvd < MaxMsgs /\ Receive(p, msg)
    \/ UserEndCall(p)
    \/ \E msg \in { SignalingMessage("offer", Sdp("offer")),
                     SignalingMessage("answer", Sdp("answer")),
                     [type |-> "ice_candidate", key |-> "candidate", data |-> Candidate] } :
         LateReceive(p, msg)
    \/ LateConnectionStateChange(p)

SpecLate == Init /\ [][NextLate]_vars

\* --------------------------------------------------------- ChatWebSocket
\* this.maxReconnectAttempts
maxReconnectAttempts == 5

\* new WebSocket(wsUrl): a socket that is connecting.  by records who called
\* connect(), afterDisconnect whether disconnect() was the last call of the
\* page on the object.
NewWebSocket(by, afterDisconnect) ==
  [ readyState |-> "CONNECTING", opened |-> FALSE, by |-> by,
    afterDisconnect |-> afterDisconnect ]

\* connect(): a new socket replaces this.socket; the previous one is neither
\* closed nor are its handlers removed.
connect(c, by) ==
  [c EXCEPT !.sockets = Append(@, NewWebSocket(by, c.disconnected)),
            !.socket = Len(c.sockets) + 1]

\* attemptReconnect(): counts the attempt and arms a timer whose handle is
\* not kept.
attemptReconnect(c) ==
  [c EXCEPT !.reconnectAttempts = @ + 1, !.timers = @ + 1]

\* disconnect(): socket.close(1000, ...) starts closing a socket that is
\* connecting or open and does nothing to one that is closing or closed.
disconnect(c) ==
  IF c.socket # 0 /\ c.sockets[c.socket].readyState \in {"CONNECTING", "OPEN"}
  THEN [c EXCEPT !.sockets[c.socket].readyState = "CLOSING"]
  ELSE c

\* send(data): transmitted on this.socket, or pushed on the queue.
send(c, data) ==
  IF c.isConnected /\ c.sockets[c.socket].readyState = "OPEN"
  THEN [c EXCEPT !.wire = Append(@, data)]
  ELSE [c EXCEPT !.messageQueue = Append(@, data)]

\* flushMessageQueue(): while the queue is not empty and isConnected, shift a
\* message and send() it.  When this.socket is not open send() pushes the
\* message back and the loop never ends: the page hangs.
RECURSIVE flushMessageQueue(_)
flushMessageQueue(c) ==
  IF c.messageQueue = <<>> \/ ~c.isConnected THEN c
  ELSE IF c.sockets[c.socket].readyState # "OPEN" THEN [c EXCEPT !.hung = TRUE]
  ELSE flushMessageQueue(send([c EXCEPT !.messageQueue = Tail(@)],
                              Head(c.messageQueue)))

\* socket.onopen
onopen(c) ==
  flushMessageQueue([c EXCEPT !.isConnected = TRUE, !.reconnectAttempts = 0])

\* socket.onclose
onclose(c, wasClean) ==
  LET d == [c EXCEPT !.isConnected = FALSE]
  IN  IF ~wasClean /\ d.reconnectAttempts < maxReconnectAttempts
      THEN attemptReconnect(d) ELSE d

ChatStep(p, c) == node' = [node EXCEPT ![p].chat = c]

\* The page calls connect(): first of all, or again after disconnect().
ChatConnect(p) ==
  LET c == node[p].chat IN
  /\ ~c.hung /\ c.connects < MaxConnects
  /\ c.socket = 0 \/ c.disconnected
  /\ ChatStep(p, connect([c EXCEPT !.connects = @ + 1, !.disconnected = FALSE],
                         "api"))

\* The page calls disconnect().
ChatDisconnect(p) ==
  LET c == node[p].chat IN
  /\ ~c.hung /\ c.socket # 0 /\ ~c.disconnected
  /\ ChatStep(p, [disconnect(c) EXCEPT !.disconnected = TRUE])

\* The page calls send(); the messages are numbered in the order of the calls.
ChatSend(p) ==
  LET c == node[p].chat IN
  /\ ~c.hung /\ c.socket # 0 /\ c.sends < MaxSends
  /\ ChatStep(p, send([c EXCEPT !.sends = @ + 1], c.sends + 1))

\* The open event of socket i.
ChatSocketOpen(p, i) ==
  LET c == node[p].chat IN
  /\ ~c.hung /\ i \in DOMAIN c.sockets
  /\ c.sockets[i].readyState = "CONNECTING"
  /\ ChatStep(p, onopen([c EXCEPT !.sockets[i].readyState = "OPEN",
                                  !.sockets[i].opened = TRUE]))

\* The close event of socket i: the connection failed or was lost (not
\* clean), or the closing handshake of a socket that had opened completed.
ChatSocketClose(p, i, wasClean) ==
  LET c == node[p].chat IN
  /\ ~c.hung /\ i \in DOMAIN c.sockets
  /\ c.sockets[i].readyState # "CLOSED"
  /\ wasClean => c.sockets[i].opened
  /\ ~wasClean => c.drops < MaxDrops
  /\ ChatStep(p, onclose([c EXCEPT !.sockets[i].readyState = "CLOSED",
                                   !.drops = IF wasClean THEN @ ELSE @ + 1],
                         wasClean))

\* A timer armed by attemptReconnect() fires.
ChatReconnectTimer(p) ==
  LET c == node[p].chat IN
  /\ ~c.hung /\ c.timers > 0
  /\ ChatStep(p, connect([c EXCEPT !.timers = @ - 1], "timer"))

\* One page with a ChatWebSocket.
NextChat ==
  \E p \in {"A"} :
    \/ ChatConnect(p)
    \/ ChatDisconnect(p)
    \/ ChatSend(p)
    \/ \E i \in 1..Len(node[p].chat.sockets) : ChatSocketOpen(p, i)
    \/ \E i \in 1..Len(node[p].chat.sockets), wasClean \in BOOLEAN :
         ChatSocketClose(p, i, wasClean)
    \/ ChatReconnectTimer(p)

SpecChat == Init /\ [][NextChat]_vars

\* -------------------------------------------------------- OfflineManager
\* The object stores syncData() goes through, in its order.
Stores == <<"mood_entries", "messages", "appointments">>

\* The ids of the records of a store that are not marked synced.
Unsynced(o, store) ==
  {i \in DOMAIN o.records : o.records[i].store = store /\ ~o.records[i].synced}

\* The finally block of syncData(), after the try block completed or after
\* the catch block.
syncDataFinally(o, outcome) ==
  [o EXCEPT !.syncInProgress = FALSE, !.running = @ - 1, !.pc = "idle",
            !.batch = {}, !.lastRun = outcome]

\* syncData() goes on to the next getUnsyncedData(), or completes.
NextStore(o) ==
  IF o.store < Len(Stores)
  THEN [o EXCEPT !.store = @ + 1, !.pc = "getUnsyncedData", !.batch = {}]
  ELSE syncDataFinally(o, "completed")

\* markSynced(storeName, ids): one get request per id in a readwrite
\* transaction; the records are written back by the requests' callbacks.
markSynced(o, ids) ==
  IF o.db = "null" THEN o ELSE [o EXCEPT !.marking = @ \cup ids]

\* A syncData() that tests isOnline only.
syncData_Unguarded(o) ==
  IF ~o.isOnline THEN o
  ELSE [o EXCEPT !.syncInProgress = TRUE, !.running = @ + 1,
                 !.pc = "getUnsyncedData", !.store = 1, !.batch = {}]

\* syncData() up to its first await: returns at once when offline or when a
\* run is in progress, otherwise sets syncInProgress and starts a run.
syncData(o) ==
  IF ~o.isOnline THEN o
  ELSE IF o.syncInProgress THEN [o EXCEPT !.skipped = TRUE]
  ELSE [o EXCEPT !.syncInProgress = TRUE, !.running = @ + 1,
                 !.pc = "getUnsyncedData", !.store = 1, !.batch = {}]

OfflineStep(p, o) == node' = [node EXCEPT ![p].offline = o]

\* init() settles: openDB() failed, loadCachedData() failed, or both
\* succeeded and syncData() is called when online.
OfflineInitSettled(p, outcome) ==
  LET o == node[p].offline IN
  /\ ~o.initDone
  /\ OfflineStep(p,
       LET d == [o EXCEPT !.initDone = TRUE,
                          !.db = IF outcome = "openFailed" THEN "null" ELSE "open"]
       IN  IF outcome = "ok" THEN syncData(d) ELSE d)

\* The 'online' event: the browser went from offline to online (isOnline
\* follows navigator.onLine).
OnlineEvent(p) ==
  /\ ~node[p].offline.isOnline
  /\ OfflineStep(p, syncData([node[p].offline EXCEPT !.isOnline = TRUE]))

\* The 'offline' event.
OfflineEvent(p) ==
  /\ node[p].offline.isOnline
  /\ OfflineStep(p, [node[p].offline EXCEPT !.isOnline = FALSE])

\* 'visibilitychange' to visible.
VisibilityChange(p) ==
  /\ node[p].offline.isOnline
  /\ OfflineStep(p, syncData(node[p].offline))

\* storeData(storeName, data): a new record, synced: false.
StoreData(p, store) ==
  LET o == node[p].offline IN
  /\ o.db # "null" /\ Len(o.records) < MaxRecords
  /\ OfflineStep(p, [o EXCEPT !.records =
                       Append(@, [store |-> store, synced |-> FALSE, acked |-> FALSE])])

\* getUnsyncedData() of the run settles.  Its readonly transaction starts
\* after the readwrite transactions on the stores; its request may fail.
GetUnsyncedDataSettled(p, fulfil) ==
  LET o == node[p].offline
      unsynced == IF o.db = "null" THEN {} ELSE Unsynced(o, Stores[o.store])
  IN  /\ o.pc = "getUnsyncedData" /\ o.marking = {}
      /\ ~fulfil => o.db # "null"
      /\ OfflineStep(p,
           IF ~fulfil THEN syncDataFinally(o, "failed")
           ELSE IF unsynced = {} THEN NextStore(o)
           ELSE [o EXCEPT !.pc = "fetch", !.batch = unsynced])

\* The fetch() of syncMoodEntries / syncMessages / syncAppointments settles:
\* an OK response, another response, or a rejection.
SyncFetchSettled(p, outcome) ==
  LET o == node[p].offline
      ok == [o EXCEPT !.records = [i \in DOMAIN @ |->
                         IF i \in o.batch THEN [@[i] EXCEPT !.acked = TRUE] ELSE @[i]]]
  IN  /\ o.pc = "fetch"
      /\ OfflineStep(p,
           CASE outcome = "reject" -> syncDataFinally(o, "failed")
             [] outcome = "ok" ->
                  IF Stores[o.store] = "mood_entries" THEN [ok EXCEPT !.pc = "json"]
                  ELSE NextStore(markSynced(ok, o.batch))
             [] OTHER ->
                  IF Stores[o.store] = "mood_entries" THEN syncDataFinally(o, "failed")
                  ELSE NextStore(o))

\* response.json() of syncMoodEntries settles: it rejects, or it fulfils and
\* the records are marked; reading result.synced_count throws when the body
\* was null.
SyncJsonSettled(p, outcome) ==
  LET o == node[p].offline IN
  /\ o.pc = "json"
  /\ OfflineStep(p,
       CASE outcome = "reject" -> syncDataFinally(o, "failed")
         [] outcome = "null" -> syncDataFinally(markSynced(o, o.batch), "failed")
         [] OTHER -> NextStore(markSynced(o, o.batch)))

\* The success callback of a get request of markSynced: synced = true.
MarkSyncedRequest(p, id) ==
  LET o == node[p].offline IN
  /\ id \in o.marking
  /\ OfflineStep(p, [o EXCEPT !.marking = @ \ {id}, !.records[id].synced = TRUE])

\* One page with an OfflineManager.
NextSync ==
  \E p \in {"A"} :
    \/ \E outcome \in {"ok", "openFailed", "loadFailed"} : OfflineInitSettled(p, outcome)
    \/ OnlineEvent(p)
    \/ OfflineEvent(p)
    \/ VisibilityChange(p)
    \/ \E i \in DOMAIN Stores : StoreData(p, Stores[i])
    \/ \E fulfil \in BOOLEAN : GetUnsyncedDataSettled(p, fulfil)
    \/ \E outcome \in {"ok", "notOk", "reject"} : SyncFetchSettled(p, outcome)
    \/ \E outcome \in {"ok", "null", "reject"} : SyncJsonSettled(p, outcome)
    \/ \E id \in 1..MaxRecords : MarkSyncedRequest(p, id)

SpecSync == Init /\ [][NextSync]_vars

\* -------------------------------------------------------- InfiniteScroll
\* The server's answer for a page of a list of MaxPages pages: whether it
\* holds items and whether a page follows.
PageData(page) == [items |-> page <= MaxPages, has_next |-> page < MaxPages]

\* fetchData() up to its await: a GET for page this.page + 1 with this.params.
fetchData(sc) ==
  [sc EXCEPT !.fetches = Append(@, [page |-> sc.page + 1, params |-> sc.params])]

\* loadMore() up to its await.
loadMore(sc) ==
  IF sc.isLoading \/ ~sc.hasNextPage THEN sc
  ELSE fetchData([sc EXCEPT !.isLoading = TRUE])

\* handleResponse(data) for the answer to request req: the items are
\* appended to the container and this.page is incremented.
handleResponse(sc, req) ==
  IF PageData(req.page).items
  THEN [sc EXCEPT !.items = Append(@, req), !.page = @ + 1,
                  !.hasNextPage = PageData(req.page).has_next]
  ELSE [sc EXCEPT !.hasNextPage = FALSE]

\* reset(): back to page 1, the items removed, isLoading cleared, and
\* loadMore() called.
reset(sc) ==
  loadMore([sc EXCEPT !.page = 1, !.hasNextPage = TRUE, !.isLoading = FALSE,
                      !.items = <<>>, !.resets = @ + 1])

\* updateParams(newParams)
updateParams(sc) == reset([sc EXCEPT !.params = @ + 1])

ScrollStep(p, sc) == node' = [node EXCEPT ![p].scroll = sc]

\* The IntersectionObserver callback: the loading element is in view.
Intersect(p) ==
  LET sc == node[p].scroll IN
  /\ sc.hasNextPage /\ ~sc.isLoading
  /\ ScrollStep(p, loadMore(sc))

\* A click on the load-more button.
LoadMoreClick(p) ==
  LET sc == node[p].scroll IN
  /\ ~sc.isLoading
  /\ ScrollStep(p, loadMore(sc))

\* A click on the refresh button.
RefreshClick(p) ==
  /\ node[p].scroll.resets < MaxResets
  /\ ScrollStep(p, reset(node[p].scroll))

\* The page calls updateParams().
UpdateParams(p) ==
  /\ node[p].scroll.resets < MaxResets
  /\ ScrollStep(p, updateParams(node[p].scroll))

\* The fetch of request i settles, and loadMore() goes on after its await:
\* handleResponse or handleError, then finally isLoading = false.
ScrollFetchSettled(p, i, ok) ==
  LET sc == node[p].scroll
      rest == [sc EXCEPT !.fetches = SubSeq(@, 1, i - 1) \o SubSeq(@, i + 1, Len(@))]
  IN  /\ i \in DOMAIN sc.fetches
      /\ ScrollStep(p, [(IF ok THEN handleResponse(rest, sc.fetches[i]) ELSE rest)
                          EXCEPT !.isLoading = FALSE])

\* One page with an InfiniteScroll.
NextScroll ==
  \E p \in {"A"} :
    \/ Intersect(p)
    \/ LoadMoreClick(p)
    \/ RefreshClick(p)
    \/ UpdateParams(p)
    \/ \E i \in 1..Len(node[p].scroll.fetches), ok \in BOOLEAN :
         ScrollFetchSettled(p, i, ok)

SpecScroll == Init /\ [][NextScroll]_vars

\* ------------------------------------------------------------------ claims
Count(seq, x) == Cardinality({i \in DOMAIN seq : seq[i] = x})

SentOfType(s, type) == Cardinality({i \in DOMAIN s.sent : s.sent[i].type = type})

AllTracksStopped(s) == \A i \in DOMAIN s.tracks : s.tracks[i].stopped

PcReleased(s) == s.pcCreated => s.pcClosed

SocketReleased(s) == s.wsCreated => s.readyState \in {"CLOSING", "CLOSED"}

EndCallInvoked(s) == s.endCalls + s.hangups > 0

Terminals(s) == Count(s.notified, "ended") + Count(s.notified, "failed")

\* C1: over any sequence of endCall() invocations of one session (user hangup,
\* received hangup, or both) onCallStateChange gets 'ended' exactly once.
C1_EndedExactlyOnce ==
  \A p \in Peers :
    /\ Count(node[p].notified, "ended") <= 1
    /\ EndCallInvoked(node[p]) => Count(node[p].notified, "ended") = 1

\* C2: the side effects of endCall() happen at most once per session (close of
\* the connection, stop of each local track, close of the socket, a 'hangup'
\* sent) and endCall() raises no error.
C2_TeardownIdempotent ==
  \A p \in Peers :
    /\ node[p].pcCloseCalls <= 1
    /\ \A i \in DOMAIN node[p].tracks : node[p].tracks[i].stopCalls <= 1
    /\ node[p].wsCloseCalls <= 1
    /\ SentOfType(node[p], "hangup") <= 1
    /\ ~node[p].endCallThrew

\* C3: the state notifications of one session hold at most one terminal
\* state: never both 'ended' and 'failed', never one of them twice.
C3_OneTerminalState ==
  \A p \in Peers : Terminals(node[p]) <= 1

\* C4: once 'connected' was reported and the connection's state is 'failed',
\* a terminal state has been reported exactly once and every local track is
\* stopped.
C4_ConnectionFailureEndsCall ==
  \A p \in Peers :
    ( /\ Count(node[p].notified, "connected") > 0
      /\ node[p].connectionState = "failed" )
    => /\ Terminals(node[p]) = 1
       /\ AllTracksStopped(node[p])

\* C5: when getUserMedia was rejected, initializeCall has created no peer
\* connection and no socket and holds no track, and (as long as nobody calls
\* endCall on the failed call) 'failed' is the one state reported.
C5_MediaRejected ==
  \A p \in Peers :
    node[p].failedAt = "getUserMedia" =>
      /\ ~node[p].pcCreated /\ ~node[p].wsCreated
      /\ node[p].peerConnection = "null" /\ node[p].signalingSocket = "null"
      /\ node[p].tracks = <<>>
      /\ node[p].endCalls = 0 => node[p].notified = <<"failed">>

C5_Witness ==
  /\ node["A"].failedAt = "getUserMedia"
  /\ node["A"].notified = <<"failed">>

\* C6: whenever 'failed' was reported, every acquired track is stopped, the
\* peer connection is closed and the socket is closed.
C6_FailedReleasesResources ==
  \A p \in Peers :
    Count(node[p].notified, "failed") > 0 =>
      /\ AllTracksStopped(node[p])
      /\ PcReleased(node[p])
      /\ SocketReleased(node[p])

\* C7: if endCall() ran while initializeCall was suspended, then once
\* initializeCall has finished the page holds no live track, no open peer
\* connection and no open socket.
C7_EndCallDuringInit ==
  \A p \in Peers :
    (node[p].endCallDuringInit /\ node[p].init \in {"done", "failed"}) =>
      /\ AllTracksStopped(node[p])
      /\ PcReleased(node[p])
      /\ SocketReleased(node[p])

\* C8: a caller and a callee, an in-order transport and a browser that
\* accepts every step: when nothing is left to happen, the offer was sent and
\* applied, the answer was sent and applied, and both pages have reported
\* 'connected'.
C8_PairConnects ==
  (~ENABLED NextPair) =>
    /\ SentOfType(node["A"], "offer") = 1
    /\ node["B"].remoteDesc = "offer"
    /\ SentOfType(node["B"], "answer") = 1
    /\ node["A"].remoteDesc = "answer"
    /\ \A p \in Peers : Count(node[p].notified, "connected") > 0

ConnectingFirst(s) ==
  \A i \in DOMAIN s.notified :
    s.notified[i] = "connected" =>
      \E j \in 1..(i - 1) : s.notified[j] = "connecting"

C10_OfferTransmitted ==
  \A p \in Peers :
    (node[p].init = "done" /\ node[p].isInitiator) =>
      SentOfType(node[p], "offer") = 1

\* C11: a candidate that reached the connection before it had a remote
\* description is not lost: once the remote description is set and the
\* connection has nothing pending, no candidate is left refused and unapplied
\* (the manager never hands a candidate to the connection a second time).
C11_EarlyCandidateApplied ==
  \A p \in Peers :
    ( /\ node[p].pcCreated /\ ~node[p].pcClosed
      /\ node[p].remoteDesc # "none" /\ node[p].ops = <<>> )
    => node[p].candsRefused = 0

IceCandidatesDelivered(p) ==
  Cardinality({i \in 1..node[p].rcvd :
                 node[Other(p)].sent[i].type = "ice_candidate"})

\* C12: every message one page sent and the other page received is read back
\* as the payload that was sent, and every ICE candidate delivered was passed
\* to addIceCandidate.
C12_WireFormatAgrees ==
  \A p \in Peers :
    /\ \A i \in 1..node[p].rcvd :
         LET m == node[Other(p)].sent[i]
         IN  m.type \in {"offer", "answer", "ice_candidate"} =>
               PayloadRead(m) = m.data
    /\ node[p].addIceCalls = IceCandidatesDelivered(p)

LiveVideo(s) == {i \in DOMAIN s.tracks : s.tracks[i].kind = "video" /\ ~s.tracks[i].stopped}

\* C13: in a 'voice' session no camera video is ever requested and the page
\* holds no camera track.
C13_VoiceHasNoCamera ==
  \A p \in Peers :
    node[p].callType = "voice" =>
      /\ node[p].videoRequests = 0
      /\ \A i \in DOMAIN node[p].tracks : node[p].tracks[i].source # "camera"

\* What a toggle may change: the enabled flags of the tracks, nothing else.
OnlyEnabledDiffers(s, t) ==
  /\ [t EXCEPT !.tracks = s.tracks] = s
  /\ DOMAIN t.tracks = DOMAIN s.tracks
  /\ \A i \in DOMAIN s.tracks :
       [t.tracks[i] EXCEPT !.enabled = s.tracks[i].enabled] = s.tracks[i]

C15_ScreenShareRoundTrip ==
  \A p \in Peers :
    ( /\ node[p].callType = "video" /\ node[p].stopsDone > 0
      /\ node[p].share = "idle" /\ node[p].peerConnection # "null" )
    => /\ node[p].videoSender # 0
       /\ node[p].tracks[node[p].videoSender].source = "camera"
       /\ LiveVideo(node[p]) = {node[p].videoSender}

\* C16: once 'ended' was reported (endCall not having run in the middle of
\* initializeCall, the case of C7) every track the page acquired is stopped,
\* the peer connection is closed and the socket is closed.
C16_EndedReleasesEverything ==
  \A p \in Peers :
    (Count(node[p].notified, "ended") > 0 /\ ~node[p].endCallDuringInit) =>
      /\ AllTracksStopped(node[p])
      /\ PcReleased(node[p])
      /\ SocketReleased(node[p])

OpenConnections(s) ==
  s.orphanPcs + (IF s.pcCreated /\ ~s.pcClosed THEN 1 ELSE 0)

OpenSockets(s) ==
  s.orphanSockets + (IF s.readyState \in {"CONNECTING", "OPEN"} THEN 1 ELSE 0)

\* C17: a page has at most one peer connection that is not closed and at
\* most one signaling socket that is not closed, and no live track of a
\* stream the manager no longer refers to.
C17_OneConnectionPerManager ==
  \A p \in Peers :
    /\ OpenConnections(node[p]) <= 1
    /\ OpenSockets(node[p]) <= 1
    /\ \A i \in DOMAIN node[p].tracks :
         node[p].tracks[i].stream = "previous" => node[p].tracks[i].stopped

\* The step in which the connection of p settles the operation at the head
\* of its chain: the connection stays open and the chain loses its head.
Settles(p) ==
  /\ node[p].ops # <<>> /\ ~node'[p].pcClosed
  /\ node'[p].ops # node[p].ops
  /\ Len(node'[p].ops) <= Len(node[p].ops)

C19_OneErrorPerFailure ==
  \A p \in Peers :
    (node[p].init = "failed" \/ node[p].connectionState = "failed")
    => node[p].errorsShown = 1

\* C20: initializeCall never rejects to its caller.
C20_InitializeCallNeverRejects ==
  \A p \in Peers : ~node[p].initRejected

\* C21: when the signaling socket of a call that was never connected is
\* closed, not by endCall, the call has been reported 'failed'.
C21_SocketLossFailsCall ==
  \A p \in Peers :
    ( /\ node[p].signalingSocket # "null" /\ node[p].readyState = "CLOSED"
      /\ Count(node[p].notified, "connected") = 0 )
    => Count(node[p].notified, "failed") > 0

\* C22: when applying a received offer or answer, or generating the answer,
\* was rejected, the call has been reported 'failed'.
C22_NegotiationFailureFailsCall ==
  \A p \in Peers :
    node[p].negotiationFailed => Count(node[p].notified, "failed") > 0

\* C27: a user hangup through VideoCallUI.endCall() comes to an end: the
\* chain of calls returns without overflowing the stack and the UI has let
\* go of the manager.
C27_HangupTerminates ==
  \A p \in Peers :
    node[p].endCalls > 0 =>
      /\ ~node[p].uncaught
      /\ node[p].uiCallManager = "null"

\* C28: once 'ended' or 'failed' was reported, none of 'connecting',
\* 'connected', 'disconnected' is reported.
C28_TerminalAbsorbing ==
  \A p \in Peers :
    \A i, j \in DOMAIN node[p].notified :
      (i < j /\ node[p].notified[i] \in {"ended", "failed"})
      => node[p].notified[j] \notin {"connecting", "connected", "disconnected"}

HandlerOps(s) ==
  {i \in DOMAIN s.ops :
     s.ops[i].owner \in {"handleOffer", "handleAnswer", "handleIceCandidate"}}

\* C29: the handlers of received messages run one after the other: at most
\* one operation started by a message handler is pending on the connection.
C29_MessagesSerialized ==
  \A p \in Peers : Cardinality(HandlerOps(node[p])) <= 1

\* C30: a responder never sends an 'offer' and an initiator never sends an
\* 'answer'.
C30_RolesOnTheWire ==
  \A p \in Peers :
    node[p].init # "idle" =>
      /\ node[p].isInitiator => SentOfType(node[p], "answer") = 0
      /\ ~node[p].isInitiator => SentOfType(node[p], "offer") = 0

\* The transport has a message for page p that its socket can take: the
\* condition under which Deliver(p) can happen.
Deliverable(p) ==
  node[p].rcvd < Len(node[Other(p)].sent) /\ node[p].readyState = "OPEN"

\* C23: once a user of an established call has hung up and the other page
\* has nothing left to receive, the other page has received the hangup,
\* reported 'ended', closed its connection, stopped its tracks and closed
\* its socket.
C23_RemoteHangup ==
  \A p \in Peers :
    (node[p].endCalls > 0 /\ ~Deliverable(Other(p))) =>
      LET q == node[Other(p)]
      IN  /\ q.hangups > 0
          /\ Count(q.notified, "ended") > 0
          /\ q.pcCreated /\ q.pcClosed /\ q.peerConnection = "null"
          /\ q.tracks # <<>> /\ AllTracksStopped(q)
          /\ q.wsCreated /\ SocketReleased(q)

C23_Witness ==
  /\ node["A"].endCalls = 1 /\ SentOfType(node["A"], "hangup") = 1
  /\ node["B"].hangups = 1 /\ node["B"].pcClosed
  /\ Count(node["B"].notified, "ended") > 0

\* C24: the step that receives a message of an unknown type changes nothing
\* of the page but the count of messages received.
C24_UnknownTypeIgnored ==
  [][ \A p \in Peers :
        node'[p].rcvd # node[p].rcvd
        => node'[p] = [node[p] EXCEPT !.rcvd = @ + 1] ]_vars

C24_Witness ==
  /\ node["A"].rcvd >= 1
  /\ node["A"].init = "createOffer" /\ node["A"].ops # <<>>

\* C25: the step in which the connection rejects an addIceCandidate only
\* takes the operation off the chain (and counts the refusal): nothing is
\* notified, nothing is released, the socket goes on receiving.
C25_CandidateFailureIsLocal ==
  [][ \A p \in Peers :
        ( /\ Settles(p)
          /\ Head(node[p].ops).op = "addIceCandidate"
          /\ node'[p].remoteCands = node[p].remoteCands )
        => LET s == [node[p] EXCEPT !.ops = Tail(@)]
           IN  \/ node'[p] = s
               \/ node'[p] = [s EXCEPT !.candsRefused = @ + 1] ]_vars

C25_Witness ==
  /\ node["A"].candsRefused = 1
  /\ node["A"].remoteDesc = "offer"
  /\ node["A"].notified = <<"connecting">>
  /\ ~node["A"].pcClosed /\ node["A"].readyState = "OPEN"

\* C26: a session started by accepting an incoming call is a responder's,
\* of the call type the incoming call announced, and it starts only after
\* the accept request succeeded; while the request is pending or after it
\* failed nothing is started and no media is acquired.
C26_AcceptStartsAnnouncedCall ==
  \A p \in Peers :
    /\ node[p].accept \in {"ok", "done"} =>
         /\ ~node[p].argIsInitiator
         /\ node[p].argCallType = node[p].announced
    /\ node[p].accept \in {"none", "pending", "failed"} =>
         /\ node[p].init = "idle"
         /\ node[p].tracks = <<>> /\ node[p].videoRequests = 0

C32_StartScreenShareResult ==
  \A p \in Peers :
    node[p].share = "idle" =>
      /\ node[p].startResult = "true" => node[p].videoSender # 0
      /\ \A i \in DOMAIN node[p].tracks :
           (node[p].tracks[i].source = "screen" /\ ~node[p].tracks[i].onended)
           => node[p].tracks[i].stopped

\* C33: at most one duration timer runs, and none once 'ended' was reported.
C33_OneTimer ==
  \A p \in Peers :
    /\ node[p].intervals <= 1
    /\ Count(node[p].notified, "ended") > 0 => node[p].intervals = 0

\* C34: the remote stream of the manager holds tracks of the current session
\* only.
C34_RemoteStreamPerSession ==
  \A p \in Peers :
    node[p].remoteStream # "null" => node[p].remoteTracks \subseteq {node[p].restarts}

\* C35: no handler that runs after endCall() throws an uncaught exception.
C35_QuietAfterEndCall ==
  \A p \in Peers : ~node[p].lateThrew

\* C36: no socket is opened by the reconnection logic after disconnect() was
\* called (until the page calls connect() again).
C36_NoReconnectAfterDisconnect ==
  \A p \in Peers :
    \A i \in DOMAIN node[p].chat.sockets :
      node[p].chat.sockets[i].by = "timer" => ~node[p].chat.sockets[i].afterDisconnect

\* C37: the messages passed to send() are transmitted at most once and in the
\* order of the calls, every message not transmitted is in the queue, the
\* flush on open ends, and the queue is empty after it.
C37_QueueFlushedInOrder ==
  \A p \in Peers :
    LET c == node[p].chat
        all == c.wire \o c.messageQueue
    IN  /\ ~c.hung
        /\ \A i, j \in DOMAIN c.wire : i < j => c.wire[i] < c.wire[j]
        /\ Len(all) = c.sends
        /\ {all[i] : i \in DOMAIN all} = 1..c.sends
        /\ (c.isConnected /\ c.socket # 0 /\ c.sockets[c.socket].readyState = "OPEN")
             => c.messageQueue = <<>>

\* C38: at most one syncData() run is in progress, syncInProgress is true
\* exactly while a run is in progress, and a record is marked synced (or
\* about to be) only after the server answered OK to a batch holding it.
C38_OneSyncRun ==
  \A p \in Peers :
    LET o == node[p].offline IN
    /\ o.running <= 1
    /\ o.syncInProgress <=> o.running = 1
    /\ \A i \in DOMAIN o.records :
         (o.records[i].synced \/ i \in o.marking) => o.records[i].acked

\* A trigger found a run in progress and returned, a record was marked
\* synced, and the last run failed and left syncInProgress false.
C38_Witness ==
  LET o == node["A"].offline IN
  /\ o.skipped /\ o.lastRun = "failed" /\ ~o.syncInProgress
  /\ \E i \in DOMAIN o.records : o.records[i].synced

\* C39: at most one page fetch is in flight, and the items in the container
\* are those of successive pages in increasing order, each once, fetched
\* with the current parameters, and from the first page on after a reset.
C39_OneFetchPagesInOrder ==
  \A p \in Peers :
    LET sc == node[p].scroll IN
    /\ Len(sc.fetches) <= 1
    /\ \A i \in DOMAIN sc.items :
         /\ sc.items[i].params = sc.params
         /\ sc.items[i].page = (IF sc.resets = 0 THEN i + 1 ELSE i)

====
